---- MODULE Spec2Model ----
(***************************************************************************)
(* Model of KWD/Porcupine/src/PorcupineKeyWordDetector.cpp: the factory    *)
(* create(), the constructor, init(), the audio format check, the          *)
(* destructor and the worker thread running detectionLoop().               *)
(*                                                                         *)
(* Two threads touch the detector: the owner (create, destructor) and the  *)
(* worker (detectionLoop).  The only datum they share is the atomic flag   *)
(* m_isShuttingDown, so the worker is modelled at the granularity of its   *)
(* calls to the outside (stream read, observer callouts, engine call).     *)
(*                                                                         *)
(* Audio samples are named by their position in the stream (the k-th       *)
(* sample the reader delivers is the number k), which makes loss,          *)
(* duplication, reordering and padding of samples visible in m_buffer.     *)
(***************************************************************************)
EXTENDS Integers, Sequences, FiniteSets, TLC

(***************************************************************************)
(* Bounds of the model.                                                    *)
(***************************************************************************)
\* value returned by pv_porcupine_frame_length() (engine constant, 512 in
\* the real engine; scaled down)
FrameLength == 16
\* msToPushPerIteration ranges over 1..MaxMsToPush
MaxMsToPush == 2
\* a stream read returns a multiple of BurstUnit samples
BurstUnit == 8
\* number of samples the producer writes to the stream in one run
MaxSamples == 64

(***************************************************************************)
(* Program constants.                                                      *)
(***************************************************************************)
HERTZ_PER_KILOHERTZ == 1000

PORCUPINE_COMPATIBLE_ENCODING == "LPCM"

PORCUPINE_COMPATIBLE_ENDIANNESS == "LITTLE"

\* KeyWordObserverInterface::UNSPECIFIED_INDEX
UNSPECIFIED_INDEX == "UNSPECIFIED_INDEX"

\* pv_status_t, the values detectionLoop switches on
PvStatus ==
    {"PV_STATUS_SUCCESS", "PV_STATUS_OUT_OF_MEMORY", "PV_STATUS_IO_ERROR",
     "PV_STATUS_INVALID_ARGUMENT"}

(***************************************************************************)
(* Input domains.                                                          *)
(***************************************************************************)
\* avsCommon::utils::AudioFormat, the five fields the detector looks at
AudioFormats ==
    [numChannels : {1, 2},
     sampleRateHz : {16000, 44100},
     sampleSizeInBits : {16, 8},
     endianness : {"LITTLE", "BIG"},
     encoding : {"LPCM", "OPUS"}]

\* the "keyword" entry of the configuration file
Keywords == {"alexa", "vancouver"}

\* no detection reported yet
NoDetection == [stream |-> "none", keyword |-> "none", index |-> "none", position |-> 0]

VARIABLES
    hostEndianness,     \* endianness of the platform the program runs on
    createResult,       \* what create() returned: "pending" before the call
    detector,           \* lifetime of the PorcupineKeyWordDetector object
    errorLog,           \* reasons logged with ACSDK_ERROR by create()'s chain
    m_stream,           \* "null" or "stream"
    audioFormat,        \* the format passed to create()
    porcupineKeyword,   \* keyword label from the configuration
    m_maxSamplesPerPush,
    m_porcupine,        \* engine handle: "unset", "valid" or "invalid"
    engineDeleteCalls,  \* calls of pv_porcupine_delete on the handle
    m_streamReader,     \* "none", "open" or "closed"
    readerCloseCalls,   \* calls of m_streamReader->close()
    m_isShuttingDown,
    joinable,           \* m_detectionThread.joinable()
    workerPc,           \* position of the worker thread in detectionLoop
    readerPos,          \* m_streamReader->tell(): samples delivered so far
    wordsRead,          \* result of the last readFromStream call
    m_buffer,
    processCalls,       \* calls of pv_porcupine_process
    lastStatus,         \* status of the last pv_porcupine_process call
    lastResult,         \* its detection flag
    lastFrame,          \* the frame the engine consumed in that call
    activeCount,        \* state notifications ACTIVE
    errorCount,         \* state notifications ERROR
    keywordCount,       \* keyword-detected notifications
    lastDetection,      \* arguments of the last keyword-detected notification
    didErrorOccur,      \* the loop body's local flag
    dataReads,          \* readFromStream calls that returned samples
    framesDropped,      \* calls of m_buffer.erase
    iterProcessCalls,   \* pv_porcupine_process calls since the last read returned
    readsAfterShutdown, \* reads that returned after the destructor set the flag
    atShutdown          \* the counters as they were when the destructor set the flag

ownerVars == <<hostEndianness, createResult, detector, errorLog, m_stream, audioFormat,
               porcupineKeyword, m_maxSamplesPerPush, m_porcupine, engineDeleteCalls,
               joinable, atShutdown>>

\* what the loop changes only in its read and its engine call
loopCounters == <<didErrorOccur, dataReads, framesDropped, iterProcessCalls,
                  readsAfterShutdown>>

workerVars == <<m_streamReader, readerCloseCalls, workerPc, readerPos, wordsRead, m_buffer,
                processCalls, lastStatus, lastResult, lastFrame, activeCount, errorCount,
                keywordCount, lastDetection, loopCounters>>

\* the notification and call counters the destructor's caller can compare
Counters ==
    [active |-> activeCount, error |-> errorCount, keyword |-> keywordCount,
     process |-> processCalls]

vars == <<ownerVars, workerVars, m_isShuttingDown>>


(***************************************************************************)
(* Pure functions.                                                         *)
(***************************************************************************)
\* mutant: the sample rate is tested before the channel count
FormatCheck_RateFirst(f) ==
    IF f.sampleRateHz # 16000 THEN "sampleRateMismatch"
    ELSE IF f.numChannels # 1 THEN "numChannelsMismatch"
    ELSE IF f.sampleSizeInBits # 16 THEN "sampleSizeInBitsMismatch"
    ELSE IF f.endianness # PORCUPINE_COMPATIBLE_ENDIANNESS THEN "endiannessMismatch"
    ELSE IF f.encoding # PORCUPINE_COMPATIBLE_ENCODING THEN "encodingMismatch"
    ELSE "compatible"

\* isAudioFormatCompatibleWithPorcupine: the reason it logs for the format,
\* "compatible" when it logs nothing and returns true
FormatCheck(f) ==
    IF f.numChannels # 1 THEN "numChannelsMismatch"
    ELSE IF f.sampleRateHz # 16000 THEN "sampleRateMismatch"
    ELSE IF f.sampleSizeInBits # 16 THEN "sampleSizeInBitsMismatch"
    ELSE IF f.endianness # PORCUPINE_COMPATIBLE_ENDIANNESS THEN "endiannessMismatch"
    ELSE IF f.encoding # PORCUPINE_COMPATIBLE_ENCODING THEN "encodingMismatch"
    ELSE "compatible"

\* mutant: the channel count is not checked
isAudioFormatCompatible_ChannelsUnchecked(f) ==
    FormatCheck(f) \in {"compatible", "numChannelsMismatch"}

isAudioFormatCompatibleWithPorcupine(f) == FormatCheck(f) = "compatible"

\* AbstractKeywordDetector::isByteswappingRequired: the stream's byte order
\* differs from the platform's
isByteswappingRequired(f, host) == f.endianness # host

\* m_maxSamplesPerPush as the constructor's initializer computes it
MaxSamplesPerPush(f, ms) == (f.sampleRateHz \div HERTZ_PER_KILOHERTZ) * ms

\* mutant: the engine is called only once two frames are buffered
HasFullFrame_TwoFrames(buf) == Len(buf) > 2 * FrameLength

\* mutant: a buffer of exactly one frame is handed to the engine
HasFullFrame_AtLeast(buf) == Len(buf) >= FrameLength

\* the test of detectionLoop on the buffer before it calls the engine
HasFullFrame(buf) == Len(buf) > FrameLength

\* mutant: the whole buffer is cleared after a call
EraseFrame_Clear(buf) == <<>>

\* mutant: the erase stops one sample short of the frame
EraseFrame_OneShort(buf) == SubSeq(buf, FrameLength, Len(buf))

\* m_buffer.erase(begin, begin + frame length)
EraseFrame(buf) == SubSeq(buf, FrameLength + 1, Len(buf))

\* the cases of the switch that notify ERROR and leave the loop
IsFatal(status) ==
    status \in {"PV_STATUS_OUT_OF_MEMORY", "PV_STATUS_IO_ERROR", "PV_STATUS_INVALID_ARGUMENT"}

\* mutant: the detection flag is not looked at
IsDetection_IgnoresResult(status, result) == status = "PV_STATUS_SUCCESS"

\* the case of the switch that notifies the keyword observers
IsDetection(status, result) == status = "PV_STATUS_SUCCESS" /\ result

\* mutant: the loop is not left after a fatal status
AfterProcess_NoBreak(status) == "loopTop"

\* mutant: the engine is called again while a full frame is left
AfterProcess_Drain(status) ==
    IF IsFatal(status) THEN "closing"
    ELSE IF HasFullFrame(EraseFrame(m_buffer)) THEN "process"
    ELSE "loopTop"

\* where the loop goes after the switch: if (didErrorOccur) break
AfterProcess(status) == IF IsFatal(status) THEN "closing" ELSE "loopTop"

\* the sizes a read of at most max samples can return when the stream holds
\* avail more samples (0 is a timeout)
ReadSizes(max, avail) == {n \in 0..max : n <= avail /\ n % BurstUnit = 0}

\* the samples the last read put in audioDataToPush[0 .. wordsRead)
AudioDataToPush(pos, n) == [i \in 1..n |-> pos - n + i]

(***************************************************************************)
(* Initial state: create() has not been called.                            *)
(***************************************************************************)
Init ==
    /\ hostEndianness \in {"LITTLE", "BIG"}
    /\ createResult = "pending"
    /\ detector = "none"
    /\ errorLog = <<>>
    /\ m_stream = "null"
    /\ audioFormat \in AudioFormats
    /\ porcupineKeyword = "none"
    /\ m_maxSamplesPerPush = 0
    /\ m_porcupine = "unset"
    /\ engineDeleteCalls = 0
    /\ m_streamReader = "none"
    /\ readerCloseCalls = 0
    /\ m_isShuttingDown \in BOOLEAN
    /\ joinable = FALSE
    /\ workerPc = "notStarted"
    /\ readerPos = 0
    /\ wordsRead = 0
    /\ m_buffer = <<>>
    /\ processCalls = 0
    /\ lastStatus = "none"
    /\ lastResult = FALSE
    /\ lastFrame = <<>>
    /\ activeCount = 0
    /\ errorCount = 0
    /\ keywordCount = 0
    /\ lastDetection = NoDetection
    /\ didErrorOccur = FALSE
    /\ dataReads = 0
    /\ framesDropped = 0
    /\ iterProcessCalls = 0
    /\ readsAfterShutdown = 0
    /\ atShutdown = Counters

(***************************************************************************)
(* Owner thread: create().                                                 *)
(***************************************************************************)
\* create() returns nullptr before any detector object exists
CreateRejects(reason) ==
    /\ createResult' = "nullptr"
    /\ errorLog' = Append(errorLog, reason)
    /\ UNCHANGED <<detector, m_stream, porcupineKeyword, m_maxSamplesPerPush, m_porcupine,
                   m_streamReader, m_isShuttingDown, joinable, workerPc>>

\* reading the configuration file throws: create() is left by the exception
CreateThrows ==
    /\ createResult' = "threw"
    /\ UNCHANGED <<errorLog, detector, m_stream, porcupineKeyword, m_maxSamplesPerPush,
                   m_porcupine, m_streamReader, m_isShuttingDown, joinable, workerPc>>

\* the constructor: members initialised, pv_porcupine_init called; a status
\* other than success is logged and nothing else
Constructor(stream, keyword, initStatus, ms) ==
    /\ m_stream' = stream
    /\ m_maxSamplesPerPush' = MaxSamplesPerPush(audioFormat, ms)
    /\ m_porcupine' = IF initStatus = "PV_STATUS_SUCCESS" THEN "valid" ELSE "invalid"
    /\ porcupineKeyword' = keyword
    /\ detector' = "alive"

\* what the constructor logs
ConstructorLog(initStatus) ==
    IF initStatus = "PV_STATUS_SUCCESS" THEN <<>> ELSE <<"PorcupineKeyWordDetectorFailed">>

\* init() followed by create()'s test of its result; log is what was logged
\* before the call
init(readerOk, log) ==
    IF ~isAudioFormatCompatibleWithPorcupine(audioFormat)
    THEN /\ errorLog' = log \o <<FormatCheck(audioFormat), "initDetectorFailed">>
         /\ createResult' = "nullptr"
         /\ UNCHANGED <<m_streamReader, m_isShuttingDown, joinable, workerPc>>
    ELSE IF ~readerOk
    THEN /\ errorLog' = log \o <<"createStreamReaderFailed", "initDetectorFailed">>
         /\ createResult' = "nullptr"
         /\ UNCHANGED <<m_streamReader, m_isShuttingDown, joinable, workerPc>>
    ELSE /\ errorLog' = log
         /\ createResult' = "detector"
         /\ m_streamReader' = "open"
         /\ m_isShuttingDown' = FALSE
         /\ joinable' = TRUE
         /\ workerPc' = "entry"

Create ==
    /\ createResult = "pending"
    /\ \E stream \in {"null", "stream"}, configOk \in BOOLEAN, keyword \in Keywords,
          initStatus \in PvStatus, readerOk \in BOOLEAN, ms \in 1..MaxMsToPush :
          IF stream = "null" THEN CreateRejects("nullStream")
          ELSE IF isByteswappingRequired(audioFormat, hostEndianness)
          THEN CreateRejects("endianMismatch")
          ELSE IF ~configOk THEN CreateThrows
          ELSE /\ Constructor(stream, keyword, initStatus, ms)
               /\ init(readerOk, errorLog \o ConstructorLog(initStatus))
    /\ UNCHANGED <<hostEndianness, audioFormat, engineDeleteCalls, atShutdown>>
    /\ UNCHANGED <<readerCloseCalls, readerPos, wordsRead, m_buffer, processCalls, lastStatus,
                   lastResult, lastFrame, activeCount, errorCount, keywordCount, lastDetection,
                   loopCounters>>

(***************************************************************************)
(* Owner thread: the destructor.  It runs when the owner drops the         *)
(* detector create() returned, and inside create() when init() failed and  *)
(* the unique_ptr holding the detector goes out of scope.                  *)
(***************************************************************************)
\* m_isShuttingDown = true
Dtor_SetFlag ==
    /\ detector = "alive"
    /\ createResult \in {"detector", "nullptr"}
    /\ m_isShuttingDown' = TRUE
    /\ detector' = "destructing"
    /\ atShutdown' = Counters
    /\ UNCHANGED <<hostEndianness, createResult, errorLog, m_stream, audioFormat,
                   porcupineKeyword, m_maxSamplesPerPush, m_porcupine, engineDeleteCalls,
                   joinable>>
    /\ UNCHANGED workerVars

\* mutant: join never returns
ThreadFinished_Never == FALSE

\* mutant: the destructor does not wait for the thread
ThreadFinished_NoWait == TRUE

\* std::thread::join returns once the thread's function has returned
ThreadFinished == workerPc = "done"

\* if (joinable()) join(); then the members are destroyed
Dtor_Join ==
    /\ detector = "destructing"
    /\ joinable => ThreadFinished
    /\ joinable' = FALSE
    /\ detector' = "destroyed"
    /\ UNCHANGED <<hostEndianness, createResult, errorLog, m_stream, audioFormat,
                   porcupineKeyword, m_maxSamplesPerPush, m_porcupine, engineDeleteCalls,
                   atShutdown>>
    /\ UNCHANGED <<workerVars, m_isShuttingDown>>

(***************************************************************************)
(* Worker thread: detectionLoop().                                         *)
(***************************************************************************)
\* the notification before the loop
Loop_Entry ==
    /\ workerPc = "entry"
    /\ activeCount' = activeCount + 1
    /\ workerPc' = "loopTop"
    /\ UNCHANGED <<m_streamReader, readerCloseCalls, readerPos, wordsRead, m_buffer,
                   processCalls, lastStatus, lastResult, lastFrame, errorCount, keywordCount,
                   lastDetection, loopCounters>>
    /\ UNCHANGED <<ownerVars, m_isShuttingDown>>

\* mutant: the loop never looks at the flag
ShutdownObserved_Never == FALSE

\* the loop condition reads the flag
ShutdownObserved == m_isShuttingDown

\* while (!m_isShuttingDown)
Loop_Test ==
    /\ workerPc = "loopTop"
    /\ workerPc' = IF ShutdownObserved THEN "closing" ELSE "reading"
    /\ UNCHANGED <<m_streamReader, readerCloseCalls, readerPos, wordsRead, m_buffer,
                   processCalls, lastStatus, lastResult, lastFrame, activeCount, errorCount,
                   keywordCount, lastDetection, loopCounters>>
    /\ UNCHANGED <<ownerVars, m_isShuttingDown>>

\* mutant: a stream error returns from the thread without closing the reader
AfterRead_ErrorSkipsClose(error, n) ==
    IF error THEN "done" ELSE IF n > 0 THEN "notifyActive" ELSE "loopTop"

\* mutant: a read of zero samples is handled like a read of samples
AfterRead_ZeroIsData(error, n) == IF error THEN "closing" ELSE "notifyActive"

\* mutant: a read of zero samples leaves the loop like a stream error
AfterRead_ZeroExits(error, n) ==
    IF error \/ n = 0 THEN "closing" ELSE "notifyActive"

\* mutant: samples are appended without the ACTIVE notification
AfterRead_SkipsNotify(error, n) ==
    IF error THEN "closing" ELSE IF n > 0 THEN "append" ELSE "loopTop"

\* mutant: the error flag of the read is not tested
AfterRead_ErrorIgnored(error, n) == IF n > 0 THEN "notifyActive" ELSE "loopTop"

\* where the loop goes after a read
AfterRead(error, n) ==
    IF error THEN "closing" ELSE IF n > 0 THEN "notifyActive" ELSE "loopTop"

\* the ERROR state notifications readFromStream itself sends before it
\* returns: none (it reports the failure through its error flag only)
ReadFromStreamErrorNotifications(error) == 0

\* the destructor has set the shutdown flag
ShutdownRequested == detector \in {"destructing", "destroyed"}

\* readFromStream returns: an error, a timeout (0 samples) or samples
Loop_Read ==
    /\ workerPc = "reading"
    /\ \E error \in BOOLEAN,
          n \in ReadSizes(m_maxSamplesPerPush, MaxSamples - readerPos) :
          /\ error => n = 0
          /\ didErrorOccur' = error
          /\ wordsRead' = n
          /\ readerPos' = readerPos + n
          /\ dataReads' = IF n > 0 THEN dataReads + 1 ELSE dataReads
          /\ errorCount' = errorCount + ReadFromStreamErrorNotifications(error)
          /\ workerPc' = AfterRead(error, n)
    /\ iterProcessCalls' = 0
    /\ readsAfterShutdown' =
          IF ShutdownRequested THEN readsAfterShutdown + 1 ELSE readsAfterShutdown
    /\ UNCHANGED <<m_streamReader, readerCloseCalls, m_buffer, processCalls, lastStatus,
                   lastResult, lastFrame, activeCount, keywordCount, lastDetection,
                   framesDropped>>
    /\ UNCHANGED <<ownerVars, m_isShuttingDown>>

\* words were read: notify ACTIVE
Loop_NotifyActive ==
    /\ workerPc = "notifyActive"
    /\ activeCount' = activeCount + 1
    /\ workerPc' = "append"
    /\ UNCHANGED <<m_streamReader, readerCloseCalls, readerPos, wordsRead, m_buffer,
                   processCalls, lastStatus, lastResult, lastFrame, errorCount, keywordCount,
                   lastDetection, loopCounters>>
    /\ UNCHANGED <<ownerVars, m_isShuttingDown>>

\* m_buffer.insert(end, data, data + wordsRead), then the test on its size
Loop_Append ==
    /\ workerPc = "append"
    /\ m_buffer' = m_buffer \o AudioDataToPush(readerPos, wordsRead)
    /\ workerPc' = IF HasFullFrame(m_buffer') THEN "process" ELSE "loopTop"
    /\ UNCHANGED <<m_streamReader, readerCloseCalls, readerPos, wordsRead, processCalls,
                   lastStatus, lastResult, lastFrame, activeCount, errorCount, keywordCount,
                   lastDetection, loopCounters>>
    /\ UNCHANGED <<ownerVars, m_isShuttingDown>>

\* the arguments of notifyKeyWordObservers
Detection ==
    [stream |-> m_stream, keyword |-> porcupineKeyword, index |-> UNSPECIFIED_INDEX,
     position |-> readerPos]

\* pv_porcupine_process on the head of the buffer, and the switch on its
\* status.  The engine is a black box: it returns any status and any flag
\* (also on a handle whose initialisation failed).
Loop_Process ==
    /\ workerPc = "process"
    /\ \E status \in PvStatus, result \in BOOLEAN :
          /\ processCalls' = processCalls + 1
          /\ lastStatus' = status
          /\ lastResult' = result
          /\ lastFrame' = SubSeq(m_buffer, 1, FrameLength)
          /\ IF IsDetection(status, result)
             THEN /\ keywordCount' = keywordCount + 1
                  /\ lastDetection' = Detection
             ELSE UNCHANGED <<keywordCount, lastDetection>>
          /\ IF IsFatal(status)
             THEN /\ errorCount' = errorCount + 1
                  /\ didErrorOccur' = TRUE
                  /\ m_buffer' = m_buffer
                  /\ framesDropped' = framesDropped
             ELSE /\ errorCount' = errorCount
                  /\ didErrorOccur' = didErrorOccur
                  /\ m_buffer' = EraseFrame(m_buffer)
                  /\ framesDropped' = framesDropped + 1
          /\ workerPc' = AfterProcess(status)
    /\ iterProcessCalls' = iterProcessCalls + 1
    /\ UNCHANGED <<m_streamReader, readerCloseCalls, readerPos, wordsRead, activeCount,
                   dataReads, readsAfterShutdown>>
    /\ UNCHANGED <<ownerVars, m_isShuttingDown>>

\* m_streamReader->close() after the loop; the thread function returns
Loop_Close ==
    /\ workerPc = "closing"
    /\ m_streamReader' = "closed"
    /\ readerCloseCalls' = readerCloseCalls + 1
    /\ workerPc' = "done"
    /\ UNCHANGED <<readerPos, wordsRead, m_buffer, processCalls, lastStatus, lastResult,
                   lastFrame, activeCount, errorCount, keywordCount, lastDetection,
                   loopCounters>>
    /\ UNCHANGED <<ownerVars, m_isShuttingDown>>

Worker ==
    \/ Loop_Entry
    \/ Loop_Test
    \/ Loop_Read
    \/ Loop_NotifyActive
    \/ Loop_Append
    \/ Loop_Process
    \/ Loop_Close

Next ==
    \/ Create
    \/ Dtor_SetFlag
    \/ Dtor_Join
    \/ Worker

Spec == Init /\ [][Next]_vars

\* the scheduler runs the worker thread and the owner's pending join
FairSpec == Spec /\ WF_vars(Worker) /\ WF_vars(Dtor_Join)

TypeOK ==
    /\ hostEndianness \in {"LITTLE", "BIG"}
    /\ createResult \in {"pending", "nullptr", "threw", "detector"}
    /\ detector \in {"none", "alive", "destructing", "destroyed"}
    /\ audioFormat \in AudioFormats
    /\ m_porcupine \in {"unset", "valid", "invalid"}
    /\ m_streamReader \in {"none", "open", "closed"}
    /\ m_isShuttingDown \in BOOLEAN
    /\ joinable \in BOOLEAN
    /\ workerPc \in {"notStarted", "entry", "loopTop", "reading", "notifyActive", "append",
                     "process", "closing", "done"}
    /\ readerPos \in 0..MaxSamples
    /\ wordsRead \in 0..MaxSamples
    /\ Len(m_buffer) <= MaxSamples
    /\ processCalls \in Nat /\ activeCount \in Nat /\ keywordCount \in Nat
    /\ errorCount \in 0..1
    /\ engineDeleteCalls = 0

(***************************************************************************)
(* The required format, stated independently of the validator's code.      *)
(***************************************************************************)
RequiredFormat ==
    [numChannels |-> 1, sampleRateHz |-> 16000, sampleSizeInBits |-> 16,
     endianness |-> "LITTLE", encoding |-> "LPCM"]

FieldOrder == <<"numChannels", "sampleRateHz", "sampleSizeInBits", "endianness", "encoding">>

FieldReason ==
    <<"numChannelsMismatch", "sampleRateMismatch", "sampleSizeInBitsMismatch",
      "endiannessMismatch", "encodingMismatch">>

Mismatches(f) == {i \in 1..5 : f[FieldOrder[i]] # RequiredFormat[FieldOrder[i]]}

FirstMismatch(f) == CHOOSE i \in Mismatches(f) : \A j \in Mismatches(f) : i <= j

LoggedReasons == {errorLog[i] : i \in 1..Len(errorLog)}

FormatReasons == {FieldReason[i] : i \in 1..5}

\* samples read from the stream and not yet appended to the buffer
PendingWords == IF workerPc \in {"notifyActive", "append"} THEN wordsRead ELSE 0

(***************************************************************************)
(* C1.  If engine initialisation (pv_porcupine_init) fails during create,  *)
(* create returns no detector and the worker thread is never started: no   *)
(* state or detection notification is emitted and process is never called  *)
(* on the failed handle.                                                   *)
(* The code only logs the failed status and goes on to init(): TLC finds   *)
(* this violated.                                                          *)
(***************************************************************************)
C1_InitFailureStopsCreate ==
    m_porcupine = "invalid" =>
        /\ createResult # "detector"
        /\ workerPc = "notStarted"
        /\ activeCount = 0 /\ errorCount = 0 /\ keywordCount = 0
        /\ processCalls = 0

(***************************************************************************)
(* C2.  For every audio format that mismatches the required format in any  *)
(* field, create returns no detector, no stream reader is created, no      *)
(* worker thread is started and no state notification (ACTIVE or ERROR)    *)
(* ever fires.                                                             *)
(***************************************************************************)
C2_MismatchedFormatRejected ==
    Mismatches(audioFormat) # {} =>
        /\ createResult # "detector"
        /\ m_streamReader = "none"
        /\ workerPc = "notStarted" /\ ~joinable
        /\ activeCount = 0 /\ errorCount = 0

\* a 2-channel format went through init() and the detector was discarded
C2_Witness ==
    /\ audioFormat.numChannels = 2
    /\ "numChannelsMismatch" \in LoggedReasons
    /\ createResult = "nullptr"
    /\ detector = "destroyed"

(***************************************************************************)
(* C3.  Every process call that returns success with detected = true       *)
(* produces exactly one keyword-detected notification carrying the stream, *)
(* the configured keyword label, index UNSPECIFIED and the reader's cursor *)
(* at that moment; a call that returns detected = false or an error status *)
(* produces none, and no such notification occurs without a process call.  *)
(***************************************************************************)
C3_DetectionNotifiedOncePerDetection ==
    [][ /\ (processCalls' = processCalls + 1 /\ lastStatus' = "PV_STATUS_SUCCESS" /\ lastResult')
            => /\ keywordCount' = keywordCount + 1
               /\ lastDetection' = [stream |-> "stream", keyword |-> porcupineKeyword,
                                    index |-> "UNSPECIFIED_INDEX", position |-> readerPos]
               /\ porcupineKeyword \in Keywords
        /\ (processCalls' = processCalls + 1 /\ ~(lastStatus' = "PV_STATUS_SUCCESS" /\ lastResult'))
            => /\ keywordCount' = keywordCount
               /\ lastDetection' = lastDetection
        /\ processCalls' = processCalls
            => /\ keywordCount' = keywordCount
               /\ lastDetection' = lastDetection
        /\ processCalls' \in {processCalls, processCalls + 1}
      ]_vars

\* the third process call detected the keyword, the first two did not
C3_Witness ==
    /\ processCalls = 3
    /\ keywordCount = 1
    /\ lastStatus = "PV_STATUS_SUCCESS" /\ lastResult
    /\ lastDetection.position = readerPos
    /\ lastDetection.keyword = "vancouver"

(***************************************************************************)
(* C4.  When process returns a fatal status (OUT_OF_MEMORY, IO_ERROR or    *)
(* INVALID_ARGUMENT), state ERROR is notified exactly once and the loop    *)
(* exits: after that ERROR notification there is never another ACTIVE      *)
(* notification, keyword-detected notification, stream read or process     *)
(* call.                                                                   *)
(***************************************************************************)
C4_FatalStatusIsTerminal ==
    [][ /\ (/\ processCalls' = processCalls + 1
            /\ lastStatus' \in {"PV_STATUS_OUT_OF_MEMORY", "PV_STATUS_IO_ERROR",
                                "PV_STATUS_INVALID_ARGUMENT"})
            => /\ errorCount = 0
               /\ errorCount' = 1
               /\ workerPc' = "closing"
        /\ errorCount >= 1
            => /\ errorCount' = errorCount
               /\ activeCount' = activeCount
               /\ keywordCount' = keywordCount
               /\ processCalls' = processCalls
               /\ readerPos' = readerPos
               /\ workerPc' \in {"closing", "done"}
      ]_vars

\* the third process call ran out of memory and the thread has ended
C4_Witness ==
    /\ processCalls = 3
    /\ lastStatus = "PV_STATUS_OUT_OF_MEMORY"
    /\ errorCount = 1
    /\ workerPc = "done"

(***************************************************************************)
(* C5.  process is never called unless the accumulated buffer holds        *)
(* strictly more than requiredFrameLength samples; when reads deliver      *)
(* bursts smaller than a frame, the partial samples stay in the buffer in  *)
(* order across iterations (never dropped or zero-padded) until the        *)
(* threshold is exceeded.                                                  *)
(***************************************************************************)
C5_ProcessOnlyAboveFrameLength ==
    /\ [](workerPc = "process" => Len(m_buffer) > FrameLength)
    /\ [][processCalls' # processCalls => Len(m_buffer) > FrameLength]_vars
    /\ [](processCalls = 0 =>
            /\ m_buffer = [i \in 1..(readerPos - PendingWords) |-> i]
            /\ (workerPc \in {"loopTop", "reading"} => Len(m_buffer) <= FrameLength))

\* two bursts were buffered and a full frame's worth waits without a call
C5_Witness ==
    /\ processCalls = 0
    /\ activeCount >= 3
    /\ workerPc = "loopTop"
    /\ Len(m_buffer) > BurstUnit
    /\ Len(m_buffer) <= FrameLength

(***************************************************************************)
(* C6.  Destruction always terminates: once the destructor has set the     *)
(* shutdown flag, and given that every stream read returns, the worker     *)
(* thread eventually leaves the loop and the destructor's join returns;    *)
(* the destructor also returns without blocking when the loop has already  *)
(* exited on an error and when no thread was ever started.                 *)
(* Checked under FairSpec.                                                 *)
(***************************************************************************)
C6_DestructionTerminates ==
    /\ (detector = "destructing") ~> (detector = "destroyed")
    /\ [](detector = "destructing" /\ workerPc \in {"notStarted", "done"}
            => ENABLED Dtor_Join)

\* a detector that had read and processed audio was destroyed on request
C6_Witness ==
    /\ detector = "destroyed"
    /\ createResult = "detector"
    /\ workerPc = "done"
    /\ errorCount = 0
    /\ processCalls >= 1
    /\ m_isShuttingDown

(***************************************************************************)
(* C7.  After the destructor has returned, the worker thread has           *)
(* terminated: no stream read, no process call on the engine handle, no    *)
(* buffer access and no observer notification happens after destruction    *)
(* completes, under every interleaving of the destructor with the loop.    *)
(***************************************************************************)
C7_NoWorkAfterDestruction ==
    /\ [](detector = "destroyed" => workerPc \in {"notStarted", "done"})
    /\ [][detector = "destroyed" => UNCHANGED workerVars]_vars

\* a worker that had buffered audio has ended and the destructor returned
C7_Witness ==
    /\ detector = "destroyed"
    /\ workerPc = "done"
    /\ activeCount >= 2
    /\ Len(m_buffer) > 0

(***************************************************************************)
(* C8.  On every loop exit (shutdown flag, stream read error or fatal      *)
(* engine error) the stream reader is closed exactly once, and no read of  *)
(* the stream occurs after that close.                                     *)
(***************************************************************************)
C8_ReaderClosedOnceOnExit ==
    /\ [](readerCloseCalls <= 1)
    /\ [](workerPc = "done" => readerCloseCalls = 1 /\ m_streamReader = "closed")
    /\ [](readerCloseCalls = 1 => workerPc = "done")
    /\ [][readerCloseCalls >= 1 =>
            /\ workerPc' = "done"
            /\ readerPos' = readerPos
            /\ wordsRead' = wordsRead
            /\ m_streamReader' = "closed"]_vars

\* the loop was left on a stream read error and the reader is closed
C8_Witness ==
    /\ workerPc = "done"
    /\ readerCloseCalls = 1
    /\ errorCount = 0
    /\ ~m_isShuttingDown
    /\ readerPos > 0

(***************************************************************************)
(* C9.  The engine handle acquired at construction is released (engine     *)
(* delete) exactly once on every exit path (normal shutdown, fatal error,  *)
(* failed create), and only after the worker thread has stopped calling    *)
(* process.                                                                *)
(* Neither the destructor nor any other code calls pv_porcupine_delete:    *)
(* TLC finds this violated.                                                *)
(***************************************************************************)
C9_EngineHandleReleasedOnce ==
    /\ engineDeleteCalls <= 1
    /\ engineDeleteCalls = 1 => workerPc \in {"notStarted", "done"}
    /\ (detector = "destroyed" /\ m_porcupine = "valid") => engineDeleteCalls = 1

(***************************************************************************)
(* C10.  The format validator accepts an audio format iff channel count is *)
(* 1, sample rate is 16000 Hz, sample size is 16 bits, endianness is       *)
(* little and encoding is LPCM; for a descriptor with mismatches it        *)
(* rejects and reports the first mismatching field in the fixed order      *)
(* channel count, sample rate, sample size, endianness, encoding.          *)
(* Stated on every run of create() in which init() reached the validator.  *)
(***************************************************************************)
C10_ValidatorAcceptsExactlyRequired ==
    detector # "none" =>
        /\ (audioFormat = RequiredFormat) <=> (LoggedReasons \cap FormatReasons = {})
        /\ (audioFormat = RequiredFormat) <=>
              (createResult = "detector" \/ "createStreamReaderFailed" \in LoggedReasons)
        /\ audioFormat # RequiredFormat =>
              /\ LoggedReasons \cap FormatReasons = {FieldReason[FirstMismatch(audioFormat)]}
              /\ createResult = "nullptr"

\* a format wrong in its sample rate and its encoding was rejected for its
\* sample rate
C10_Witness ==
    /\ detector # "none"
    /\ audioFormat.numChannels = 1
    /\ audioFormat.sampleRateHz = 44100
    /\ audioFormat.encoding = "OPUS"
    /\ LoggedReasons \cap FormatReasons = {"sampleRateMismatch"}

(***************************************************************************)
(* C11.  During create, audio format validation happens before the engine  *)
(* resource is acquired: for an incompatible format, engine init is never  *)
(* called, so no engine handle exists when create fails.                   *)
(* create() constructs the detector, and with it calls pv_porcupine_init,  *)
(* before init() looks at the format: TLC finds this violated.             *)
(***************************************************************************)
C11_ValidationBeforeEngineInit ==
    Mismatches(audioFormat) # {} => m_porcupine = "unset"

(***************************************************************************)
(* C12.  After every process call the buffer is shorter by exactly         *)
(* requiredFrameLength samples, removed from the head with the remainder's *)
(* order preserved, regardless of the call's outcome (no detection,        *)
(* detection, or fatal error).                                             *)
(* The erase is in the success case of the switch only: TLC finds the      *)
(* statement violated by a call that returns a fatal status.               *)
(***************************************************************************)
C12_BufferShrinksAfterEveryCall ==
    [][processCalls' = processCalls + 1 =>
          /\ Len(m_buffer') = Len(m_buffer) - FrameLength
          /\ m_buffer' = [i \in 1..(Len(m_buffer) - FrameLength) |-> m_buffer[i + FrameLength]]
      ]_vars

(***************************************************************************)
(* C12 as amended.  After every process call that returns success (with or *)
(* without a detection) the buffer is shorter by exactly                   *)
(* requiredFrameLength samples, removed from the head with the remainder's *)
(* order preserved; after a call that returns a fatal status the buffer is *)
(* left as it was and the loop is left.                                    *)
(***************************************************************************)
C12_BufferShrinksAfterSuccess ==
    [][processCalls' = processCalls + 1 =>
          IF lastStatus' = "PV_STATUS_SUCCESS"
          THEN /\ Len(m_buffer') = Len(m_buffer) - FrameLength
               /\ m_buffer' = [i \in 1..(Len(m_buffer) - FrameLength) |->
                                  m_buffer[i + FrameLength]]
          ELSE /\ m_buffer' = m_buffer
               /\ workerPc' = "closing"
      ]_vars

\* a call that detected the keyword left the samples behind its frame at the
\* head of the buffer
C12_Witness ==
    /\ processCalls >= 1
    /\ lastStatus = "PV_STATUS_SUCCESS" /\ lastResult
    /\ workerPc = "loopTop"
    /\ Len(m_buffer) > 0
    /\ m_buffer[1] = lastFrame[FrameLength] + 1

(***************************************************************************)
(* C13.  Samples left in the buffer beyond the first frame are processed   *)
(* on the next loop iteration: whenever a loop iteration begins with more  *)
(* than requiredFrameLength samples already buffered, that iteration calls *)
(* process, including when its read returns zero samples without error.    *)
(* The engine call is inside the branch for wordsRead > 0: TLC finds the   *)
(* statement violated by a read that times out.                            *)
(***************************************************************************)
C13_BacklogProcessedEveryIteration ==
    /\ [][(workerPc = "reading" /\ Len(m_buffer) > FrameLength /\ ~didErrorOccur')
            => workerPc' # "loopTop"]_vars
    /\ [][(workerPc = "append" /\ Len(m_buffer) > FrameLength /\ workerPc' # workerPc)
            => workerPc' = "process"]_vars

(***************************************************************************)
(* C13 as amended.  Whenever a loop iteration begins with more than        *)
(* requiredFrameLength samples already buffered, that iteration calls      *)
(* process (once) if its read returns at least one sample; if its read     *)
(* returns zero samples or an error, it makes no process call and the      *)
(* buffered samples stay as they are.                                      *)
(***************************************************************************)
C13_BacklogProcessedWhenReadDelivers ==
    /\ [][(workerPc = "reading" /\ Len(m_buffer) > FrameLength /\ workerPc' # "reading") =>
            IF wordsRead' > 0
            THEN workerPc' = "notifyActive" /\ iterProcessCalls' = 0
            ELSE /\ workerPc' \in {"loopTop", "closing"}
                 /\ processCalls' = processCalls
                 /\ m_buffer' = m_buffer]_vars
    /\ [][(/\ workerPc \in {"notifyActive", "append"}
            /\ Len(m_buffer) > FrameLength
            /\ workerPc' # workerPc) =>
            /\ workerPc' \in {"append", "process"}
            /\ Len(m_buffer') > FrameLength
            /\ processCalls' = processCalls]_vars
    /\ [][(workerPc = "process" /\ workerPc' # workerPc) =>
            /\ processCalls' = processCalls + 1
            /\ iterProcessCalls' = 1
            /\ workerPc' \in {"loopTop", "closing"}]_vars

\* an iteration that began with more than a frame buffered has read samples
\* and made its call
C13_Witness ==
    /\ workerPc = "loopTop"
    /\ iterProcessCalls = 1
    /\ lastStatus = "PV_STATUS_SUCCESS"
    /\ wordsRead > 0
    /\ Len(m_buffer) > wordsRead

(***************************************************************************)
(* C14.  At most one process call is made per loop iteration (per stream   *)
(* read), even when the buffer holds two or more full frames; exactly one  *)
(* frame is consumed and the rest stays buffered.                          *)
(* The frame consumed is the one handed to the engine, the first           *)
(* requiredFrameLength samples; on success it is also removed (see C12     *)
(* for the fatal statuses).                                                *)
(***************************************************************************)
C14_OneCallPerIteration ==
    /\ [](iterProcessCalls <= 1)
    /\ [](processCalls <= dataReads)
    /\ [][processCalls' # processCalls =>
            /\ processCalls' = processCalls + 1
            /\ workerPc' # "process"
            /\ lastFrame' = [i \in 1..FrameLength |-> m_buffer[i]]
            /\ Len(m_buffer') >= Len(m_buffer) - FrameLength
            /\ \A i \in 1..(Len(m_buffer) - FrameLength) :
                  m_buffer'[Len(m_buffer') - (Len(m_buffer) - FrameLength) + i]
                     = m_buffer[FrameLength + i]
            /\ lastStatus' = "PV_STATUS_SUCCESS" =>
                  Len(m_buffer') = Len(m_buffer) - FrameLength]_vars

\* the iteration's single call found more than two frames buffered and left
\* more than one behind
C14_Witness ==
    /\ workerPc = "loopTop"
    /\ iterProcessCalls = 1
    /\ lastStatus = "PV_STATUS_SUCCESS"
    /\ Len(m_buffer) > FrameLength
    /\ m_buffer[1] = lastFrame[FrameLength] + 1

(***************************************************************************)
(* C15.  Accounting invariant: at every point of the loop the buffer       *)
(* length equals the total number of samples returned by all reads so far  *)
(* minus requiredFrameLength times the number of frame drops so far; no    *)
(* sample is lost or duplicated between read and drop.                     *)
(* Between the return of a read and the insert (where ACTIVE is notified)  *)
(* the samples just read are in audioDataToPush and not yet in the buffer: *)
(* TLC finds the equation violated there.                                  *)
(***************************************************************************)
C15_AccountingAtEveryPoint ==
    /\ Len(m_buffer) = readerPos - FrameLength * framesDropped
    /\ m_buffer = [i \in 1..Len(m_buffer) |-> FrameLength * framesDropped + i]

(***************************************************************************)
(* C15 as amended.  At every point of the loop outside the window between  *)
(* the return of a read and the append of its samples, the buffer length   *)
(* equals the total number of samples returned by all reads so far minus   *)
(* requiredFrameLength times the number of frame drops so far; inside that *)
(* window it is short by exactly the samples just read.  No sample is lost *)
(* or duplicated between read and drop.                                    *)
(***************************************************************************)
C15_AccountingOutsideReadWindow ==
    /\ workerPc \notin {"notifyActive", "append"} =>
          Len(m_buffer) = readerPos - FrameLength * framesDropped
    /\ workerPc \in {"notifyActive", "append"} =>
          /\ wordsRead > 0
          /\ Len(m_buffer) = readerPos - wordsRead - FrameLength * framesDropped
    /\ m_buffer = [i \in 1..Len(m_buffer) |-> FrameLength * framesDropped + i]

\* two frames were dropped, samples are buffered and a read's samples wait
\* to be appended
C15_Witness ==
    /\ framesDropped >= 2
    /\ Len(m_buffer) > 0
    /\ workerPc = "append"
    /\ wordsRead > 0

(***************************************************************************)
(* C16.  A read that returns zero samples with no error flag changes       *)
(* nothing: no state notification, no detection notification, no process   *)
(* call, the buffer is unchanged, and the loop proceeds to the next        *)
(* iteration (it does not exit).                                           *)
(***************************************************************************)
C16_TimeoutChangesNothing ==
    [][(workerPc = "reading" /\ workerPc' # "reading" /\ wordsRead' = 0 /\ ~didErrorOccur') =>
          /\ workerPc' = "loopTop"
          /\ UNCHANGED <<m_buffer, activeCount, errorCount, keywordCount, lastDetection,
                         processCalls, framesDropped, readerPos, dataReads,
                         m_streamReader, readerCloseCalls>>
      ]_vars

\* after reads that delivered samples, a read timed out and the loop is back
\* at its top with the samples still buffered
C16_Witness ==
    /\ workerPc = "loopTop"
    /\ dataReads >= 1
    /\ wordsRead = 0
    /\ ~didErrorOccur
    /\ Len(m_buffer) > 0

(***************************************************************************)
(* C17.  When a stream read reports an error (didErrorOccur true), the     *)
(* loop exits in that same iteration: nothing is appended to the buffer,   *)
(* process is not called, no ACTIVE or keyword-detected notification       *)
(* follows, and no ERROR state notification is emitted on this path; the   *)
(* reader is then closed.                                                  *)
(***************************************************************************)
C17_ReadErrorLeavesLoopSilently ==
    /\ [][(workerPc = "reading" /\ workerPc' # "reading" /\ didErrorOccur') =>
            /\ workerPc' = "closing"
            /\ UNCHANGED <<m_buffer, processCalls, framesDropped, activeCount, keywordCount,
                           errorCount, lastDetection>>]_vars
    /\ [][(workerPc = "closing" /\ workerPc' # "closing") =>
            /\ workerPc' = "done"
            /\ m_streamReader = "open" /\ m_streamReader' = "closed"
            /\ readerCloseCalls' = readerCloseCalls + 1
            /\ UNCHANGED <<m_buffer, processCalls, framesDropped, activeCount, keywordCount,
                           errorCount, lastDetection>>]_vars
    /\ [](errorCount > 0 =>
            lastStatus \in {"PV_STATUS_OUT_OF_MEMORY", "PV_STATUS_IO_ERROR",
                            "PV_STATUS_INVALID_ARGUMENT"})

\* after audio was processed a read failed: the thread ended with the reader
\* closed and without an ERROR notification
C17_Witness ==
    /\ workerPc = "done"
    /\ didErrorOccur
    /\ errorCount = 0
    /\ processCalls >= 1
    /\ Len(m_buffer) > 0
    /\ m_streamReader = "closed"

(***************************************************************************)
(* C18.  A started worker thread emits state ACTIVE once before its first  *)
(* read (even if shutdown is already requested or the stream never         *)
(* delivers data), and then once per read that returns more than zero      *)
(* samples, before that read's samples are appended or processed; so the   *)
(* number of ACTIVE notifications equals 1 plus the number of reads that    *)
(* returned samples, and every keyword-detected or ERROR notification is   *)
(* preceded by an ACTIVE notification of the same iteration.               *)
(* The count is compared where no notification is pending, that is except  *)
(* between the return of a read with samples and its notification.         *)
(***************************************************************************)
C18_ActivePerDataRead ==
    /\ [](workerPc \in {"notStarted", "entry"} => activeCount = 0 /\ dataReads = 0)
    /\ [](workerPc \in {"loopTop", "reading", "append", "process", "closing", "done"} =>
            activeCount = 1 + dataReads)
    /\ [](workerPc = "notifyActive" => activeCount = dataReads /\ wordsRead > 0)
    /\ [][(workerPc = "entry" /\ workerPc' # "entry") =>
            activeCount' = 1 /\ readerPos' = 0 /\ workerPc' = "loopTop"]_vars
    /\ [][(dataReads' # dataReads /\ workerPc' # workerPc) =>
            /\ dataReads' = dataReads + 1
            /\ activeCount' = activeCount
            /\ workerPc' = "notifyActive"]_vars
    /\ [][(\/ Len(m_buffer') > Len(m_buffer)
           \/ processCalls' # processCalls
           \/ keywordCount' # keywordCount
           \/ errorCount' # errorCount) =>
            /\ dataReads >= 1
            /\ activeCount = 1 + dataReads
            /\ activeCount' = activeCount]_vars

\* three reads delivered samples, four ACTIVE notifications were sent and a
\* keyword was reported
C18_Witness ==
    /\ workerPc = "done"
    /\ dataReads = 3
    /\ activeCount = 4
    /\ keywordCount >= 1

\* the worker step that ends an iteration of the loop body, whether control
\* returns to the loop test or leaves the loop by break
IterationEnds ==
    /\ workerPc \in {"reading", "append", "process"}
    /\ workerPc' \in {"loopTop", "closing"}

\* the worker step that ends an iteration and returns to the loop test
IterationReturnsToTest ==
    /\ workerPc \in {"reading", "append", "process"}
    /\ workerPc' = "loopTop"

\* every read so far returned a full chunk of m_maxSamplesPerPush samples
AllReadsFull == readerPos = m_maxSamplesPerPush * dataReads

\* the buffer never exceeds a frame plus one read when a read is at most a frame
BufferWithinFramePlusRead ==
    [](m_maxSamplesPerPush <= FrameLength =>
          Len(m_buffer) <= FrameLength + m_maxSamplesPerPush)

\* with reads larger than a frame and all of them full, the buffer at the loop
\* test has grown by at least the excess of a read over a frame per read
BufferGrowsWithFullReads ==
    [](m_maxSamplesPerPush > FrameLength /\ workerPc = "loopTop" /\ AllReadsFull =>
          Len(m_buffer) >= (m_maxSamplesPerPush - FrameLength) * dataReads)

(***************************************************************************)
(* C19, as stated.  When a read returns at most one frame of samples the   *)
(* buffer holds at most one frame at the end of every loop iteration and   *)
(* never more than a frame plus one read; when a read is larger than a     *)
(* frame and reads keep returning full chunks the buffer grows without     *)
(* bound.  The iteration that ends on a fatal engine status keeps its      *)
(* frame, so the first part fails for that iteration.                      *)
(***************************************************************************)
C19_BoundedAtEveryIterationEnd ==
    /\ [][(m_maxSamplesPerPush <= FrameLength /\ IterationEnds) =>
            Len(m_buffer') <= FrameLength]_vars
    /\ BufferWithinFramePlusRead
    /\ BufferGrowsWithFullReads

(***************************************************************************)
(* C19, amended.  When a read returns at most one frame of samples the     *)
(* buffer holds at most one frame whenever an iteration returns to the     *)
(* loop test (and so at every loop test and at the start of every read),   *)
(* and never more than a frame plus one read, the iteration that leaves    *)
(* the loop on a fatal engine status included; when a read is larger than  *)
(* a frame and every read is full, the buffer at the loop test holds at    *)
(* least (read size - frame length) samples per read done.                 *)
(***************************************************************************)
C19_BoundedWhenIterationReturnsToTest ==
    /\ [][(m_maxSamplesPerPush <= FrameLength /\ IterationReturnsToTest) =>
            Len(m_buffer') <= FrameLength]_vars
    /\ [](m_maxSamplesPerPush <= FrameLength /\ workerPc \in {"loopTop", "reading"} =>
            Len(m_buffer) <= FrameLength)
    /\ BufferWithinFramePlusRead
    /\ BufferGrowsWithFullReads

\* a read of one frame arrived on top of a buffered frame: the bound of a
\* frame plus one read is met, and the engine is about to be called
C19_Witness ==
    /\ m_maxSamplesPerPush = FrameLength
    /\ workerPc = "process"
    /\ Len(m_buffer) = FrameLength + m_maxSamplesPerPush
    /\ framesDropped >= 1

\* two full reads of two frames each have left two frames buffered
C19_GrowthReached ==
    /\ m_maxSamplesPerPush = 2 * FrameLength
    /\ workerPc = "loopTop"
    /\ dataReads = 2
    /\ AllReadsFull
    /\ Len(m_buffer) = 2 * FrameLength

\* what the worker has done since the owner set the shutdown flag
SinceShutdown ==
    [active  |-> activeCount - atShutdown.active,
     report  |-> (keywordCount - atShutdown.keyword) + (errorCount - atShutdown.error),
     process |-> processCalls - atShutdown.process]

(***************************************************************************)
(* C20.  Shutdown is cooperative and tested only at the top of the loop:   *)
(* under every interleaving at most one stream read begins after the owner *)
(* sets the shutdown flag, and that iteration runs to completion (at most  *)
(* one ACTIVE, one keyword-detected or ERROR notification and one engine   *)
(* call after the flag is set) before the worker exits; the worker leaves  *)
(* the loop without an error only from the loop test with the flag set;    *)
(* the flag is written only by the owner, no worker step changes it, and   *)
(* once the thread is started it goes from false to true and never back.   *)
(***************************************************************************)
C20_CooperativeShutdown ==
    /\ [](readsAfterShutdown <= 1)
    /\ [](ShutdownRequested =>
            /\ SinceShutdown.active \in {0, 1}
            /\ SinceShutdown.report \in {0, 1}
            /\ SinceShutdown.process \in {0, 1})
    /\ [][(workerPc # "closing" /\ workerPc' = "closing" /\ ~didErrorOccur') =>
            workerPc = "loopTop" /\ m_isShuttingDown]_vars
    /\ [][(workerPc \in {"reading", "notifyActive", "append", "process"}
             /\ workerPc' # workerPc /\ ~didErrorOccur') =>
            workerPc' \in {"notifyActive", "append", "process", "loopTop"}]_vars
    /\ [][workerPc' # workerPc /\ workerPc # "notStarted" =>
            m_isShuttingDown' = m_isShuttingDown]_vars
    /\ [][(workerPc # "notStarted" /\ m_isShuttingDown) => m_isShuttingDown']_vars
    /\ [](workerPc # "notStarted" /\ ~ShutdownRequested => ~m_isShuttingDown)
    /\ [](workerPc # "notStarted" /\ ShutdownRequested => m_isShuttingDown)

\* the flag was set while a read was about to begin: the read, its ACTIVE,
\* its engine call and its keyword notification all happened afterwards
C20_Witness ==
    /\ workerPc = "done"
    /\ ShutdownRequested
    /\ readsAfterShutdown = 1
    /\ SinceShutdown.active = 1
    /\ SinceShutdown.process = 1
    /\ keywordCount - atShutdown.keyword = 1

====
